---- MODULE Spec2Model ----
(***************************************************************************)
(* Rubik's cube MCP server: the cube engine (src/src/cubeLogic.ts), the    *)
(* MCP tool handlers (src/src/app.ts) and the visualization server's HTTP  *)
(* routes and session map (src/unnamed/part_000,                            *)
(* src/src/visualization/VisualizationServer.ts, WebSocketHandler.ts).      *)
(*                                                                         *)
(* A face is a 3x3 grid indexed [row][col] with rows and columns 0..2, as  *)
(* in the source.  A CubeState is [faces, solved, moveHistory].            *)
(***************************************************************************)
EXTENDS Integers, Sequences, FiniteSets, TLC

VARIABLES
    state,       \* RubiksCube.state of a stand-alone engine
    thrown,      \* the error of the engine's last call, or "none"
    snapshots,   \* the CubeState objects the engine's caller holds, by slot
    lastOp,      \* the caller's last operation on the engine, with its argument
    games,       \* RubiksCubeMCPServer.games: id -> [cube, session]
    sessions,    \* VisualizationServer.sessions: id -> session object
    heap,        \* the GameSession objects, by reference (index)
    now,         \* the last value Date.now() returned
    response,    \* the last handler's response
    broadcasts,  \* the gameState events emitted to the game rooms, in order
    calls,       \* the number of requests the clients have made
    finished     \* the session objects finish has been called on

vars ==
    <<state, thrown, snapshots, lastOp,
      games, sessions, heap, now, response, broadcasts, calls, finished>>

engineVars == <<state, thrown, snapshots, lastOp>>
serverVars ==
    <<games, sessions, heap, now, response, broadcasts, calls, finished>>

---------------------------------------------------------------------------
(* The cube engine: cubeLogic.ts                                           *)

Idx == 0 .. 2

FaceNames == {"front", "back", "left", "right", "top", "bottom"}

\* The array literal [a, b, c], indexed 0..2.
Row(a, b, c) == [k \in Idx |-> IF k = 0 THEN a ELSE IF k = 1 THEN b ELSE c]

\* A 3x3 grid filled with one sticker.
Uniform(c) == [i \in Idx |-> [j \in Idx |-> c]]

createSolvedCube ==
    [faces |-> [front  |-> Uniform("G"),
                back   |-> Uniform("B"),
                left   |-> Uniform("O"),
                right  |-> Uniform("R"),
                top    |-> Uniform("W"),
                bottom |-> Uniform("Y")],
     solved |-> TRUE,
     moveHistory |-> <<>>]

\* JSON.parse(JSON.stringify(s)) of a CubeState: a fresh value holding the
\* faces' stickers, the flag and the tokens, field by field.
JsonClone(s) ==
    [faces |-> [f \in FaceNames |->
                   [i \in Idx |-> [j \in Idx |-> s.faces[f][i][j]]]],
     solved |-> s.solved,
     moveHistory |-> [k \in 1 .. Len(s.moveHistory) |-> s.moveHistory[k]]]

getState(s) == JsonClone(s)

\* setState storing the faces and the flag but an empty moveHistory.
setStateDropsHistory(newState) ==
    [JsonClone(newState) EXCEPT !.moveHistory = <<>>]

setState(newState) == JsonClone(newState)

\* isSolved looking at the front face only.
isSolvedFrontOnly(faces) ==
    \A i \in Idx : \A j \in Idx : faces.front[i][j] = faces.front[0][0]

isSolved(faces) ==
    \A f \in FaceNames :
        LET firstColor == faces[f][0][0]
        IN  \A i \in Idx : \A j \in Idx : faces[f][i][j] = firstColor

\* checkSolved answering true whatever the faces.
checkSolvedAlways(faces) == TRUE

checkSolved(faces) == isSolved(faces)

\* rotated[j][n - 1 - i] = face[i][j]: the sticker at [a][b] of the result is
\* the one at [n - 1 - b][a] of the argument.
rotateFace(face) ==
    LET n == Cardinality(DOMAIN face)
    IN  [a \in 0 .. n - 1 |-> [b \in 0 .. n - 1 |-> face[n - 1 - b][a]]]

\* Op applied to the value of v: v is evaluated once, before Op runs, as a
\* statement's operand is evaluated before the next statement runs.
Call(Op(_), v) == CHOOSE r \in {Op(x) : x \in {v}} : TRUE

\* In each move below s0 is the state after the face's own rotation.  Every
\* right-hand side of the strip assignments reads a cell that no earlier
\* statement of the same move has written (temp holds the one strip that is
\* overwritten first), so each is read from s0; the assignments are kept in
\* the order of the source.
\* moveU without its temp: left's row is read from front after front was
\* overwritten.
moveUNoTemp(f) ==
    LET Strips(s0) ==
            [s0 EXCEPT !.front[0] = s0.right[0],
                       !.right[0] = s0.back[0],
                       !.back[0] = s0.left[0],
                       !.left[0] = s0.right[0]]
    IN  Call(Strips, [f EXCEPT !.top = rotateFace(f.top)])

\* moveU reading right's bottom row instead of its top row.
moveUReadsBottomRow(f) ==
    LET Strips(s0) ==
            LET temp == s0.front[0]
            IN  [s0 EXCEPT !.front[0] = s0.right[2],
                           !.right[0] = s0.back[0],
                           !.back[0] = s0.left[0],
                           !.left[0] = temp]
    IN  Call(Strips, [f EXCEPT !.top = rotateFace(f.top)])

\* moveU cycling the four rows the other way round.
moveUOtherWay(f) ==
    LET Strips(s0) ==
            LET temp == s0.front[0]
            IN  [s0 EXCEPT !.front[0] = s0.left[0],
                           !.left[0] = s0.back[0],
                           !.back[0] = s0.right[0],
                           !.right[0] = temp]
    IN  Call(Strips, [f EXCEPT !.top = rotateFace(f.top)])

moveU(f) ==
    LET Strips(s0) ==
            LET temp == s0.front[0]
            IN  [s0 EXCEPT !.front[0] = s0.right[0],
                           !.right[0] = s0.back[0],
                           !.back[0] = s0.left[0],
                           !.left[0] = temp]
    IN  Call(Strips, [f EXCEPT !.top = rotateFace(f.top)])

\* moveD cycling the four rows in the sense of moveU.
moveDSameSense(f) ==
    LET Strips(s0) ==
            LET temp == s0.front[2]
            IN  [s0 EXCEPT !.front[2] = s0.right[2],
                           !.right[2] = s0.back[2],
                           !.back[2] = s0.left[2],
                           !.left[2] = temp]
    IN  Call(Strips, [f EXCEPT !.bottom = rotateFace(f.bottom)])

moveD(f) ==
    LET Strips(s0) ==
            LET temp == s0.front[2]
            IN  [s0 EXCEPT !.front[2] = s0.left[2],
                           !.left[2] = s0.back[2],
                           !.back[2] = s0.right[2],
                           !.right[2] = temp]
    IN  Call(Strips, [f EXCEPT !.bottom = rotateFace(f.bottom)])

\* moveR with the last strip copied from the bottom face instead of temp.
moveRWrongStrip(f) ==
    LET Strips(s0) ==
            [s0 EXCEPT !.front[0][2] = s0.bottom[0][2],
                       !.front[1][2] = s0.bottom[1][2],
                       !.front[2][2] = s0.bottom[2][2],
                       !.bottom[0][2] = s0.back[2][0],
                       !.bottom[1][2] = s0.back[1][0],
                       !.bottom[2][2] = s0.back[0][0],
                       !.back[0][0] = s0.top[2][2],
                       !.back[1][0] = s0.top[1][2],
                       !.back[2][0] = s0.top[0][2],
                       !.top[0][2] = s0.bottom[0][2],
                       !.top[1][2] = s0.bottom[1][2],
                       !.top[2][2] = s0.bottom[2][2]]
    IN  Call(Strips, [f EXCEPT !.right = rotateFace(f.right)])

moveR(f) ==
    LET Strips(s0) ==
            LET temp == Row(s0.front[0][2], s0.front[1][2], s0.front[2][2])
            IN  [s0 EXCEPT !.front[0][2] = s0.bottom[0][2],
                           !.front[1][2] = s0.bottom[1][2],
                           !.front[2][2] = s0.bottom[2][2],
                           !.bottom[0][2] = s0.back[2][0],
                           !.bottom[1][2] = s0.back[1][0],
                           !.bottom[2][2] = s0.back[0][0],
                           !.back[0][0] = s0.top[2][2],
                           !.back[1][0] = s0.top[1][2],
                           !.back[2][0] = s0.top[0][2],
                           !.top[0][2] = temp[0],
                           !.top[1][2] = temp[1],
                           !.top[2][2] = temp[2]]
    IN  Call(Strips, [f EXCEPT !.right = rotateFace(f.right)])

\* moveL writing front's centre instead of the middle of its column 0.
moveLWritesCentre(f) ==
    LET Strips(s0) ==
            LET temp == Row(s0.front[0][0], s0.front[1][0], s0.front[2][0])
            IN  [s0 EXCEPT !.front[0][0] = s0.top[0][0],
                           !.front[1][1] = s0.top[1][0],
                           !.front[2][0] = s0.top[2][0],
                           !.top[0][0] = s0.back[2][2],
                           !.top[1][0] = s0.back[1][2],
                           !.top[2][0] = s0.back[0][2],
                           !.back[0][2] = s0.bottom[2][0],
                           !.back[1][2] = s0.bottom[1][0],
                           !.back[2][2] = s0.bottom[0][0],
                           !.bottom[0][0] = temp[0],
                           !.bottom[1][0] = temp[1],
                           !.bottom[2][0] = temp[2]]
    IN  Call(Strips, [f EXCEPT !.left = rotateFace(f.left)])

moveL(f) ==
    LET Strips(s0) ==
            LET temp == Row(s0.front[0][0], s0.front[1][0], s0.front[2][0])
            IN  [s0 EXCEPT !.front[0][0] = s0.top[0][0],
                           !.front[1][0] = s0.top[1][0],
                           !.front[2][0] = s0.top[2][0],
                           !.top[0][0] = s0.back[2][2],
                           !.top[1][0] = s0.back[1][2],
                           !.top[2][0] = s0.back[0][2],
                           !.back[0][2] = s0.bottom[2][0],
                           !.back[1][2] = s0.bottom[1][0],
                           !.back[2][2] = s0.bottom[0][0],
                           !.bottom[0][0] = temp[0],
                           !.bottom[1][0] = temp[1],
                           !.bottom[2][0] = temp[2]]
    IN  Call(Strips, [f EXCEPT !.left = rotateFace(f.left)])

\* moveF writing left's middle column instead of the column that borders
\* front.
moveFWrongColumn(f) ==
    LET Strips(s0) ==
            LET temp == s0.top[2]
            IN  [s0 EXCEPT !.top[2] = Row(s0.left[2][2], s0.left[1][2], s0.left[0][2]),
                           !.left[0][1] = s0.bottom[0][0],
                           !.left[1][1] = s0.bottom[0][1],
                           !.left[2][1] = s0.bottom[0][2],
                           !.bottom[0] = Row(s0.right[2][0], s0.right[1][0], s0.right[0][0]),
                           !.right[0][0] = temp[0],
                           !.right[1][0] = temp[1],
                           !.right[2][0] = temp[2]]
    IN  Call(Strips, [f EXCEPT !.front = rotateFace(f.front)])

moveF(f) ==
    LET Strips(s0) ==
            LET temp == s0.top[2]
            IN  [s0 EXCEPT !.top[2] = Row(s0.left[2][2], s0.left[1][2], s0.left[0][2]),
                           !.left[0][2] = s0.bottom[0][0],
                           !.left[1][2] = s0.bottom[0][1],
                           !.left[2][2] = s0.bottom[0][2],
                           !.bottom[0] = Row(s0.right[2][0], s0.right[1][0], s0.right[0][0]),
                           !.right[0][0] = temp[0],
                           !.right[1][0] = temp[1],
                           !.right[2][0] = temp[2]]
    IN  Call(Strips, [f EXCEPT !.front = rotateFace(f.front)])

moveB(f) ==
    LET Strips(s0) ==
            LET temp == s0.top[0]
            IN  [s0 EXCEPT !.top[0] = Row(s0.right[0][2], s0.right[1][2], s0.right[2][2]),
                           !.right[0][2] = s0.bottom[2][2],
                           !.right[1][2] = s0.bottom[2][1],
                           !.right[2][2] = s0.bottom[2][0],
                           !.bottom[2] = Row(s0.left[2][0], s0.left[1][0], s0.left[0][0]),
                           !.left[0][0] = temp[2],
                           !.left[1][0] = temp[1],
                           !.left[2][0] = temp[0]]
    IN  Call(Strips, [f EXCEPT !.back = rotateFace(f.back)])

\* The 18 tokens of CubeMove, in the order of the zod enum and of validMoves.
validMoves ==
    <<"U", "D", "L", "R", "F", "B",
      "U'", "D'", "L'", "R'", "F'", "B'",
      "U2", "D2", "L2", "R2", "F2", "B2">>

KnownMoves == {validMoves[k] : k \in DOMAIN validMoves}

\* getMoveFunction with the counter-clockwise turns as two quarter turns.
getMoveFunctionShortPrime(move, f) ==
    LET Quarter(X, g) ==
            CASE X = "U" -> moveU(g)
              [] X = "D" -> moveD(g)
              [] X = "R" -> moveR(g)
              [] X = "L" -> moveL(g)
              [] X = "F" -> moveF(g)
              [] X = "B" -> moveB(g)
        k == CHOOSE n \in DOMAIN validMoves : validMoves[n] = move
        X == validMoves[((k - 1) % 6) + 1]
    IN  IF k <= 6
        THEN Quarter(X, f)
        ELSE Quarter(X, Quarter(X, f))

\* The switch of getMoveFunction, applied to the faces.  A token with no case
\* throws: executeMove tests KnownMoves before it applies this.
getMoveFunction(move, f) ==
    CASE move = "U"   -> moveU(f)
      [] move = "U'"  -> Call(moveU, Call(moveU, moveU(f)))
      [] move = "U2"  -> Call(moveU, moveU(f))
      [] move = "D"   -> moveD(f)
      [] move = "D'"  -> Call(moveD, Call(moveD, moveD(f)))
      [] move = "D2"  -> Call(moveD, moveD(f))
      [] move = "R"   -> moveR(f)
      [] move = "R'"  -> Call(moveR, Call(moveR, moveR(f)))
      [] move = "R2"  -> Call(moveR, moveR(f))
      [] move = "L"   -> moveL(f)
      [] move = "L'"  -> Call(moveL, Call(moveL, moveL(f)))
      [] move = "L2"  -> Call(moveL, moveL(f))
      [] move = "F"   -> moveF(f)
      [] move = "F'"  -> Call(moveF, Call(moveF, moveF(f)))
      [] move = "F2"  -> Call(moveF, moveF(f))
      [] move = "B"   -> moveB(f)
      [] move = "B'"  -> Call(moveB, Call(moveB, moveB(f)))
      [] move = "B2"  -> Call(moveB, moveB(f))

\* executeMove with unshift in place of push.
executeMovePrepends(s, move) ==
    LET After(faces) ==
            [faces |-> faces,
             moveHistory |-> <<move>> \o s.moveHistory,
             solved |-> checkSolved(faces)]
    IN  Call(After, getMoveFunction(move, s.faces))

\* executeMove without its last statement: the flag is left as it was.
executeMoveStaleFlag(s, move) ==
    LET After(faces) ==
            [faces |-> faces,
             moveHistory |-> Append(s.moveHistory, move),
             solved |-> s.solved]
    IN  Call(After, getMoveFunction(move, s.faces))

\* executeMove on an engine whose state is s, for a token of the alphabet:
\* the move function runs, then the token is pushed and the flag recomputed.
executeMove(s, move) ==
    LET After(faces) ==
            [faces |-> faces,
             moveHistory |-> Append(s.moveHistory, move),
             solved |-> checkSolved(faces)]
    IN  Call(After, getMoveFunction(move, s.faces))

---------------------------------------------------------------------------
(* A stand-alone engine driven by a caller.                                *)

\* The caller issues at most MaxMoves successful moves.
MaxMoves == 3

\* The tokens a caller passes: the alphabet and one token outside it.
MoveInputs == KnownMoves \cup {"X"}

NoServer ==
    /\ games = <<>>
    /\ sessions = <<>>
    /\ heap = <<>>
    /\ now = 0
    /\ response = [kind |-> "none"]
    /\ broadcasts = <<>>
    /\ calls = 0
    /\ finished = {}

\* new RubiksCube()
Init ==
    /\ state = createSolvedCube
    /\ thrown = "none"
    /\ snapshots = <<>>
    /\ lastOp = [op |-> "new"]
    /\ NoServer

\* executeMove(move) with a token of the alphabet.
ExecuteMove(move) ==
    /\ move \in KnownMoves
    /\ Len(state.moveHistory) < MaxMoves
    /\ state' = executeMove(state, move)
    /\ thrown' = "none"
    /\ lastOp' = [op |-> "executeMove", arg |-> move]
    /\ UNCHANGED snapshots
    /\ UNCHANGED serverVars

\* executeMove pushing the token before it looks up the move function.
ExecuteMoveUnknownPushes(move) ==
    /\ move \notin KnownMoves
    /\ thrown' = "Unknown move"
    /\ lastOp' = [op |-> "executeMove", arg |-> move]
    /\ state' = [state EXCEPT !.moveHistory = Append(@, move)]
    /\ Len(state.moveHistory) < MaxMoves
    /\ UNCHANGED snapshots
    /\ UNCHANGED serverVars

\* executeMove(move) with any other token: getMoveFunction throws before the
\* move function runs, before the push and before the solved flag is set.
ExecuteMoveUnknown(move) ==
    /\ move \notin KnownMoves
    /\ thrown' = "Unknown move"
    /\ lastOp' = [op |-> "executeMove", arg |-> move]
    /\ UNCHANGED <<state, snapshots>>
    /\ UNCHANGED serverVars

Next ==
    \/ \E move \in MoveInputs : ExecuteMove(move)
    \/ \E move \in MoveInputs : ExecuteMoveUnknown(move)

Spec == Init /\ [][Next]_vars

---------------------------------------------------------------------------
(* The same engine over a state given to setState whose 54 stickers are    *)
(* pairwise distinct strings, written here as the labels 1..54.            *)

FaceOrder == <<"front", "back", "left", "right", "top", "bottom">>

FaceNo(f) == CHOOSE k \in DOMAIN FaceOrder : FaceOrder[k] = f

Label(f, i, j) == (FaceNo(f) - 1) * 9 + i * 3 + j + 1

LabelledCube ==
    [faces |-> [f \in FaceNames |->
                   [i \in Idx |-> [j \in Idx |-> Label(f, i, j)]]],
     solved |-> FALSE,
     moveHistory |-> <<>>]

\* new RubiksCube(); setState(LabelledCube)
InitLabel ==
    /\ state = setState(LabelledCube)
    /\ thrown = "none"
    /\ snapshots = <<>>
    /\ lastOp = [op |-> "setState"]
    /\ NoServer

SpecLabel == InitLabel /\ [][Next]_vars

---------------------------------------------------------------------------
(* The engine and the CubeState objects its caller holds.  An object the   *)
(* caller holds is [shared, value]: value is what the object holds, and    *)
(* shared names the parts of it that are the very objects this.state is    *)
(* made of, so that a write to such a part by either side is seen by both. *)

\* The caller's variables: each holds a CubeState object once assigned.
Slots == {"first", "second"}

\* The objects a CubeState is made of: the object itself, which holds the
\* solved flag, its faces (with their rows) and its moveHistory array.
Parts == {"object", "faces", "moveHistory"}

\* No moveHistory of this section grows beyond MaxHistory tokens.
MaxHistory == 1

\* The tokens the caller of this section passes to executeMove.
SnapshotMoves == {"U"}

\* What the caller writes into an object it holds:
\* snapshot.solved = !snapshot.solved, snapshot.faces.top[0][0] = 'Y',
\* snapshot.moveHistory.push('U2').
Mutations == {[kind |-> "flag"], [kind |-> "paint"], [kind |-> "push"]}

\* The part a write goes to.
PartOf(m) ==
    CASE m.kind = "flag"  -> "object"
      [] m.kind = "paint" -> "faces"
      [] m.kind = "push"  -> "moveHistory"

\* The value v after the write m.
Mutated(v, m) ==
    CASE m.kind = "flag"  -> [v EXCEPT !.solved = ~ @]
      [] m.kind = "paint" -> [v EXCEPT !.faces.top[0][0] = "Y"]
      [] m.kind = "push"  -> [v EXCEPT !.moveHistory = Append(@, "U2")]

\* What the caller reads in the object c it holds.
SeenIn(c) ==
    [faces |-> IF "faces" \in c.shared THEN state.faces ELSE c.value.faces,
     solved |-> IF "object" \in c.shared THEN state.solved ELSE c.value.solved,
     moveHistory |-> IF "moveHistory" \in c.shared
                     THEN state.moveHistory
                     ELSE c.value.moveHistory]

Seen(k) == SeenIn(snapshots[k])

\* getState returning this.state itself.
getStateObjectShared(s) == [shared |-> Parts, value |-> s]

\* The object getState returns: the parse of a string, made of new objects
\* only.
getStateObject(s) == [shared |-> {}, value |-> getState(s)]

\* The parts this.state shares with newState after setState(newState):
\* this.state is the parse of a string.
setStateShares(newState) == {}

\* k = cube.getState(): the object k held before, if any, is dropped.
GetState(k) ==
    /\ snapshots' = [i \in (DOMAIN snapshots) \cup {k} |->
                        IF i = k THEN getStateObject(state) ELSE snapshots[i]]
    /\ lastOp' = [op |-> "getState", arg |-> k]
    /\ thrown' = "none"
    /\ UNCHANGED state
    /\ UNCHANGED serverVars

\* cube.setState(k) for the object the caller holds in k.  The
\* object this.state was before is dropped by the engine: what the caller
\* holds of it stays as it is.
SetState(k) ==
    /\ k \in DOMAIN snapshots
    /\ state' = setState(Seen(k))
    /\ snapshots' = [i \in DOMAIN snapshots |->
                        [shared |-> IF i = k
                                    THEN setStateShares(Seen(k))
                                    ELSE {},
                         value |-> Seen(i)]]
    /\ lastOp' = [op |-> "setState", arg |-> k]
    /\ thrown' = "none"
    /\ UNCHANGED serverVars

\* The caller writes m into the object it holds in k.
MutateSnapshot(k, m) ==
    /\ k \in DOMAIN snapshots
    /\ m.kind = "push" => Len(Seen(k).moveHistory) < MaxHistory
    /\ IF PartOf(m) \in snapshots[k].shared
       THEN /\ state' = Mutated(state, m)
            /\ UNCHANGED snapshots
       ELSE /\ snapshots' = [snapshots EXCEPT ![k].value = Mutated(@, m)]
            /\ UNCHANGED state
    /\ lastOp' = [op |-> "mutate", arg |-> k]
    /\ UNCHANGED thrown
    /\ UNCHANGED serverVars

NextSnapshot ==
    \/ \E move \in SnapshotMoves :
           Len(state.moveHistory) < MaxHistory /\ ExecuteMove(move)
    \/ \E k \in Slots : GetState(k)
    \/ \E k \in Slots : SetState(k)
    \/ \E k \in Slots : \E m \in Mutations : MutateSnapshot(k, m)

SpecSnapshot == Init /\ [][NextSnapshot]_vars

---------------------------------------------------------------------------
(* The server: the MCP tools of app.ts and the HTTP routes of the          *)
(* visualization server, over the two maps and the session objects.  Node  *)
(* runs each handler to completion: no handler awaits, so one handler is   *)
(* one step.  A GameSession object is a cell of heap; games[id].session    *)
(* and sessions[id] hold references to cells, so one object registered in  *)
(* both maps is one cell.                                                  *)

\* The clients make at most MaxCalls requests.
MaxCalls == 3

\* At most MaxSessions sessions are created.
MaxSessions == 2

\* Date.now() returns at most MaxTime.
MaxTime == 1

\* The tokens the clients send in move requests; "X" is outside the alphabet.
\* The zod enum of manipulateCube lets only the alphabet reach the handler.
SessionMoves == {"U", "U'"}

HttpMoves == SessionMoves \cup {"X"}

\* The values Math.random().toString(36).substr(2, 9) may return to the next
\* create: a value it has not returned before (written as the number of the
\* create), or one it returned to an earlier create.
RandomSuffixes == 1 .. Len(heap) + 1

\* scramble() without an argument: moves = 20.
DefaultScramble == 20

\* The sequences of tokens the random draws of one scramble pick, each a
\* short pattern repeated: all the same token, or two tokens in turn.
DrawPatterns == {<<"U">>, <<"R", "U'">>}

Draws(n) ==
    {[i \in 1 .. n |-> p[((i - 1) % Len(p)) + 1]] : p \in DrawPatterns}

RECURSIVE scrambleFromOne(_, _, _)
\* scramble with a loop that starts at i = 1: the first draw is not executed.
scrambleFromOne(s, moves, draws) ==
    LET Draw(before) == executeMove(before, draws[moves])
    IN  IF moves <= 1
        THEN s
        ELSE Call(Draw, scrambleFromOne(s, moves - 1, draws))

RECURSIVE scramble(_, _, _)
\* scramble(moves) on an engine whose state is s, draws[i] being the i-th
\* randomMove: executeMove for each, in order.
scramble(s, moves, draws) ==
    LET Draw(before) == executeMove(before, draws[moves])
    IN  IF moves <= 0
        THEN s
        ELSE Call(Draw, scramble(s, moves - 1, draws))

\* new RubiksCube() followed by scramble(): the engine's state, for each
\* sequence of draws.
scrambledCube ==
    [draws \in Draws(DefaultScramble) |->
        scramble(createSolvedCube, DefaultScramble, draws)]

\* const { scramble = true, difficulty = 20 } = req.body: the default of
\* difficulty.
DefaultDifficulty == 20

\* req.body.difficulty as the clients of POST /api/games send it: <<>> for a
\* body without the field, <<v>> for a body whose field is v.
SentDifficulties == {<<>>, <<0>>, <<1>>}

\* The destructuring of req.body: the value of difficulty after it.
bodyDifficulty(sent) == IF sent = <<>> THEN DefaultDifficulty ELSE sent[1]

\* The values difficulty takes in POST /api/games.
Difficulties == {bodyDifficulty(sent) : sent \in SentDifficulties}

\* new RubiksCube() followed by scramble(difficulty), for each sequence of
\* draws.
scrambledBy ==
    [difficulty \in Difficulties |->
        [draws \in Draws(difficulty) |->
            scramble(createSolvedCube, difficulty, draws)]]

\* A Date.now() that follows one that returned t.
DateNow(t) == {u \in {t, t + 1} : u <= MaxTime}

\* Map.set(k, v)
MapSet(m, k, v) ==
    [x \in (DOMAIN m) \cup {k} |-> IF x = k THEN v ELSE m[x]]

CubeId(t, r) == [prefix |-> "cube", time |-> t, rand |-> r]

\* An id no session was ever given.
UnknownId == [prefix |-> "cube", time |-> 0, rand |-> 0]

\* The ids the clients send.
IdInputs == (DOMAIN games) \cup (DOMAIN sessions) \cup {UnknownId}

InitServer ==
    /\ state = createSolvedCube
    /\ thrown = "none"
    /\ snapshots = <<>>
    /\ lastOp = [op |-> "new"]
    /\ games = <<>>
    /\ sessions = <<>>
    /\ heap = <<>>
    /\ now = 0
    /\ response = [kind |-> "none"]
    /\ broadcasts = <<>>
    /\ calls = 0
    /\ finished = {}

\* broadcastGameState putting its event before the earlier ones.
broadcastGameStatePrepends(gameId, cubeState, status) ==
    <<[gameId |-> gameId, state |-> cubeState, status |-> status]>>
        \o broadcasts

\* WebSocketHandler.broadcastGameState
broadcastGameState(gameId, cubeState, status) ==
    Append(broadcasts, [gameId |-> gameId, state |-> cubeState, status |-> status])

\* manipulateCube: if (newState.solved) session.status = 'completed'
mcpStatus(newState, old) == IF newState.solved THEN "completed" ELSE old

\* POST move: if (cube.isSolved()) session.status = 'completed'
httpStatusReopens(cube, old) ==
    IF isSolved(cube.faces) THEN "completed" ELSE "active"

httpStatusKeep(cube, old) == old

httpStatus(cube, old) == IF isSolved(cube.faces) THEN "completed" ELSE old

\* finish: session.status = 'completed'
finishStatusIfSolved(finalState, old) ==
    IF finalState.solved THEN "completed" ELSE old

finishStatus(finalState, old) == "completed"

\* startCube: status: 'active'
initialStatusBySolved(cubeState) ==
    IF cubeState.solved THEN "completed" ELSE "active"

initialStatus(cubeState) == "active"

\* VisualizationServer.updateSession on the heap h at clock reading t: the
\* heap after it.
updateSession(h, gameId, cubeState, t) ==
    IF gameId \in DOMAIN sessions
    THEN LET ref == sessions[gameId]
         IN  [h EXCEPT ![ref].cubeState = cubeState,
                       ![ref].lastActivity = t,
                       ![ref].status =
                           IF cubeState.solved THEN "completed" ELSE @]
    ELSE h

\* MCP tool startCube.  Its three Date.now() calls (in the id, createdAt and
\* lastActivity) are taken to fall in one millisecond.
StartCube(scramble_, r, draws) ==
    /\ calls < MaxCalls
    /\ Len(heap) < MaxSessions
    /\ \E t0 \in DateNow(now) : \E t1 \in {t0} : \E t2 \in {t1} :
        \E cube \in {IF scramble_ THEN scrambledCube[draws] ELSE createSolvedCube} :
        \E currentState \in {getState(cube)} :
        LET gameId == CubeId(t0, r)
            session == [id |-> gameId,
                        cubeState |-> getState(cube),
                        createdAt |-> t1,
                        lastActivity |-> t2,
                        status |-> initialStatus(getState(cube))]
            ref == Len(heap) + 1
        IN  /\ heap' = Append(heap, session)
            /\ games' = MapSet(games, gameId, [cube |-> cube, session |-> ref])
            /\ sessions' = MapSet(sessions, gameId, ref)
            /\ response' = [kind |-> "startCube",
                            scramble |-> scramble_,
                            gameId |-> gameId,
                            cube |-> currentState,
                            nextAction |-> IF currentState.solved
                                           THEN "finish"
                                           ELSE "manipulateCube"]
            /\ now' = t2
    /\ calls' = calls + 1
    /\ UNCHANGED <<broadcasts, finished, engineVars>>

\* MCP tool manipulateCube with an id that is not in games: it throws.
ManipulateCubeNotFound(gameId) ==
    /\ calls < MaxCalls
    /\ gameId \notin DOMAIN games
    /\ response' = [kind |-> "error", tool |-> "manipulateCube", gameId |-> gameId]
    /\ calls' = calls + 1
    /\ UNCHANGED <<games, sessions, heap, now, broadcasts, finished, engineVars>>

\* MCP tool manipulateCube on a session whose status is completed.
ManipulateCubeCompleted(gameId, move) ==
    /\ calls < MaxCalls
    /\ gameId \in DOMAIN games
    /\ heap[games[gameId].session].status = "completed"
    /\ response' = [kind |-> "manipulateCube",
                    gameId |-> gameId,
                    move |-> move,
                    executed |-> FALSE,
                    cube |-> getState(games[gameId].cube),
                    nextAction |-> "finish"]
    /\ calls' = calls + 1
    /\ UNCHANGED <<games, sessions, heap, now, broadcasts, finished, engineVars>>

\* manipulateCube executing the move on a copy of the engine: the engine
\* kept in games stays as it was.
ManipulateCubeActiveOnCopy(gameId, move) ==
    /\ calls < MaxCalls
    /\ gameId \in DOMAIN games
    /\ heap[games[gameId].session].status # "completed"
    /\ \E t1 \in DateNow(now) : \E t2 \in DateNow(t1) :
        \E cube \in {executeMove(games[gameId].cube, move)} :
        \E newState \in {getState(cube)} :
        \E h1 \in {[heap EXCEPT ![games[gameId].session].cubeState = newState,
                                ![games[gameId].session].lastActivity = t1,
                                ![games[gameId].session].status =
                                    mcpStatus(newState, @)]} :
        \E h2 \in {updateSession(h1, gameId, newState, t2)} :
            /\ games' = games
            /\ heap' = h2
            /\ broadcasts' =
                   IF gameId \in DOMAIN sessions
                   THEN broadcastGameState(gameId, newState,
                                           h2[sessions[gameId]].status)
                   ELSE broadcasts
            /\ now' = IF gameId \in DOMAIN sessions THEN t2 ELSE t1
            /\ response' = [kind |-> "manipulateCube",
                            gameId |-> gameId,
                            move |-> move,
                            executed |-> TRUE,
                            cube |-> newState,
                            nextAction |-> IF newState.solved
                                           THEN "finish"
                                           ELSE "manipulateCube"]
    /\ calls' = calls + 1
    /\ UNCHANGED <<sessions, finished, engineVars>>

\* MCP tool manipulateCube on an active session.
ManipulateCubeActive(gameId, move) ==
    /\ calls < MaxCalls
    /\ gameId \in DOMAIN games
    /\ heap[games[gameId].session].status # "completed"
    /\ \E t1 \in DateNow(now) : \E t2 \in DateNow(t1) :
        \E cube \in {executeMove(games[gameId].cube, move)} :
        \E newState \in {getState(cube)} :
        \E h1 \in {[heap EXCEPT ![games[gameId].session].cubeState = newState,
                                ![games[gameId].session].lastActivity = t1,
                                ![games[gameId].session].status =
                                    mcpStatus(newState, @)]} :
        \E h2 \in {updateSession(h1, gameId, newState, t2)} :
            /\ games' = [games EXCEPT ![gameId].cube = cube]
            /\ heap' = h2
            /\ broadcasts' =
                   IF gameId \in DOMAIN sessions
                   THEN broadcastGameState(gameId, newState,
                                           h2[sessions[gameId]].status)
                   ELSE broadcasts
            /\ now' = IF gameId \in DOMAIN sessions THEN t2 ELSE t1
            /\ response' = [kind |-> "manipulateCube",
                            gameId |-> gameId,
                            move |-> move,
                            executed |-> TRUE,
                            cube |-> newState,
                            nextAction |-> IF newState.solved
                                           THEN "finish"
                                           ELSE "manipulateCube"]
    /\ calls' = calls + 1
    /\ UNCHANGED <<sessions, finished, engineVars>>

\* MCP tool finish with an id that is not in games: it throws.
FinishNotFound(gameId) ==
    /\ calls < MaxCalls
    /\ gameId \notin DOMAIN games
    /\ response' = [kind |-> "error", tool |-> "finish", gameId |-> gameId]
    /\ calls' = calls + 1
    /\ UNCHANGED <<games, sessions, heap, now, broadcasts, finished, engineVars>>

\* MCP tool finish.
Finish(gameId) ==
    /\ calls < MaxCalls
    /\ gameId \in DOMAIN games
    /\ \E t \in DateNow(now) :
        \E finalState \in {getState(games[gameId].cube)} :
        LET ref == games[gameId].session
        IN  /\ heap' = [heap EXCEPT ![ref].status = finishStatus(finalState, @),
                                    ![ref].lastActivity = t]
            /\ now' = t
            /\ response' = [kind |-> "finish",
                            gameId |-> gameId,
                            cube |-> finalState,
                            nextAction |-> "null"]
    /\ calls' = calls + 1
    /\ finished' = finished \cup {games[gameId].session}
    /\ UNCHANGED <<games, sessions, broadcasts, engineVars>>

\* POST /api/games.  Its three Date.now() calls are taken to fall in one
\* millisecond, as in StartCube.  The session is registered in sessions
\* only: games is not touched and the engine is dropped.
HttpCreateGame(scramble_, sent, r, draws) ==
    /\ calls < MaxCalls
    /\ Len(heap) < MaxSessions
    /\ \E t0 \in DateNow(now) : \E t1 \in {t0} : \E t2 \in {t1} :
        \E difficulty \in {bodyDifficulty(sent)} :
        \E cube \in {IF scramble_
                      THEN scrambledBy[difficulty][draws]
                      ELSE createSolvedCube} :
        LET gameId == CubeId(t0, r)
            session == [id |-> gameId,
                        cubeState |-> getState(cube),
                        createdAt |-> t1,
                        lastActivity |-> t2,
                        status |-> "active",
                        scrambleMoves |-> difficulty]
            ref == Len(heap) + 1
        IN  /\ heap' = Append(heap, session)
            /\ sessions' = MapSet(sessions, gameId, ref)
            /\ response' = [kind |-> "postGames",
                            code |-> 201,
                            scramble |-> scramble_,
                            sent |-> sent,
                            difficulty |-> difficulty,
                            gameId |-> gameId]
            /\ now' = t2
    /\ calls' = calls + 1
    /\ UNCHANGED <<games, broadcasts, finished, engineVars>>

\* POST /api/test/create-game: the id is `test_${Date.now()}`, with no
\* random part.
TestId(t) == [prefix |-> "test", time |-> t, rand |-> 0]

\* The number of moves POST /api/test/create-game executes on the new cube.
TestScramble == 10

\* The array POST /api/test/create-game draws its moves from.
scrambleMoves == <<"U", "R", "F", "L", "D", "B">>

\* The sequences of tokens the draws of one test create pick, each a short
\* pattern over scrambleMoves repeated.
TestDraws ==
    {[i \in 1 .. TestScramble |-> p[((i - 1) % Len(p)) + 1]] :
        p \in {<<scrambleMoves[1]>>, <<scrambleMoves[2], scrambleMoves[3]>>}}

\* new RubiksCube() followed by the ten executeMove calls of the test
\* create, for each sequence of draws.
testCube ==
    [draws \in TestDraws |-> scramble(createSolvedCube, TestScramble, draws)]

\* POST /api/test/create-game.  Its three Date.now() calls are taken to fall
\* in one millisecond.  The session is set in sessions only.
HttpTestCreateGame(draws) ==
    /\ calls < MaxCalls
    /\ Len(heap) < MaxSessions
    /\ \E t0 \in DateNow(now) : \E t1 \in {t0} : \E t2 \in {t1} :
        \E cube \in {testCube[draws]} :
        LET gameId == TestId(t0)
            session == [id |-> gameId,
                        cubeState |-> getState(cube),
                        status |-> "active",
                        createdAt |-> t1,
                        lastActivity |-> t2]
            ref == Len(heap) + 1
        IN  /\ heap' = Append(heap, session)
            /\ sessions' = MapSet(sessions, gameId, ref)
            /\ response' = [kind |-> "testCreateGame",
                            code |-> 200,
                            gameId |-> gameId]
            /\ now' = t2
    /\ calls' = calls + 1
    /\ UNCHANGED <<games, broadcasts, finished, engineVars>>

\* The 404 branch registering a new session under the id it did not find.
HttpNotFoundRegisters(route, gameId) ==
    /\ calls < MaxCalls
    /\ gameId \notin DOMAIN sessions
    /\ response' = [kind |-> route, gameId |-> gameId, code |-> 404]
    /\ heap' = Append(heap, [id |-> gameId,
                             cubeState |-> createSolvedCube,
                             createdAt |-> now,
                             lastActivity |-> now,
                             status |-> "active"])
    /\ sessions' = MapSet(sessions, gameId, Len(heap) + 1)
    /\ calls' = calls + 1
    /\ UNCHANGED <<games, now, broadcasts, finished, engineVars>>

\* GET /api/cube/:gameId and POST /api/cube/:gameId/move with an id that is
\* not in sessions: 404.
HttpNotFound(route, gameId) ==
    /\ calls < MaxCalls
    /\ gameId \notin DOMAIN sessions
    /\ response' = [kind |-> route, gameId |-> gameId, code |-> 404]
    /\ calls' = calls + 1
    /\ UNCHANGED <<games, sessions, heap, now, broadcasts, finished, engineVars>>

\* GET /api/cube/:gameId
HttpGetCube(gameId) ==
    /\ calls < MaxCalls
    /\ gameId \in DOMAIN sessions
    /\ \E t \in DateNow(now) :
        LET ref == sessions[gameId]
        IN  /\ heap' = [heap EXCEPT ![ref].lastActivity = t]
            /\ now' = t
            /\ response' = [kind |-> "getCube",
                            gameId |-> gameId,
                            code |-> 200,
                            state |-> heap[ref].cubeState,
                            status |-> heap[ref].status]
    /\ calls' = calls + 1
    /\ UNCHANGED <<games, sessions, broadcasts, finished, engineVars>>

\* POST /api/cube/:gameId/move with a token validMoves does not include: 400.
\* The 400 branch taken after session.lastActivity was set.
HttpMoveInvalidTouches(gameId, move) ==
    /\ calls < MaxCalls
    /\ gameId \in DOMAIN sessions
    /\ move \notin KnownMoves
    /\ response' = [kind |-> "postMove", gameId |-> gameId, code |-> 400,
                    move |-> move]
    /\ calls' = calls + 1
    /\ \E t \in DateNow(now) :
           /\ heap' = [heap EXCEPT ![sessions[gameId]].lastActivity = t]
           /\ now' = t
    /\ UNCHANGED <<games, sessions, broadcasts, finished, engineVars>>

HttpMoveInvalid(gameId, move) ==
    /\ calls < MaxCalls
    /\ gameId \in DOMAIN sessions
    /\ move \notin KnownMoves
    /\ response' = [kind |-> "postMove", gameId |-> gameId, code |-> 400,
                    move |-> move]
    /\ calls' = calls + 1
    /\ UNCHANGED <<games, sessions, heap, now, broadcasts, finished, engineVars>>

\* POST /api/cube/:gameId/move with a token of validMoves.
HttpMove(gameId, move) ==
    /\ calls < MaxCalls
    /\ gameId \in DOMAIN sessions
    /\ move \in KnownMoves
    /\ \E t \in DateNow(now) :
        \E loaded \in {setState(heap[sessions[gameId]].cubeState)} :
        \E cube \in {executeMove(loaded, move)} :
        LET ref == sessions[gameId]
            status == httpStatus(cube, heap[ref].status)
        IN  /\ heap' = [heap EXCEPT ![ref].cubeState = getState(cube),
                                    ![ref].lastActivity = t,
                                    ![ref].status = status]
            /\ now' = t
            /\ broadcasts' = broadcastGameState(gameId, getState(cube), status)
            /\ response' = [kind |-> "postMove",
                            gameId |-> gameId,
                            code |-> 200,
                            move |-> move,
                            state |-> getState(cube),
                            status |-> status]
    /\ calls' = calls + 1
    /\ UNCHANGED <<games, sessions, finished, engineVars>>

NextServer ==
    \/ \E r \in RandomSuffixes : StartCube(FALSE, r, <<>>)
    \/ \E r \in RandomSuffixes : \E draws \in Draws(DefaultScramble) :
           StartCube(TRUE, r, draws)
    \/ \E gameId \in IdInputs : ManipulateCubeNotFound(gameId)
    \/ \E gameId \in IdInputs : \E move \in SessionMoves :
           ManipulateCubeCompleted(gameId, move)
    \/ \E gameId \in IdInputs : \E move \in SessionMoves :
           ManipulateCubeActive(gameId, move)
    \/ \E gameId \in IdInputs : FinishNotFound(gameId)
    \/ \E gameId \in IdInputs : Finish(gameId)
    \/ \E gameId \in IdInputs : HttpNotFound("getCube", gameId)
    \/ \E gameId \in IdInputs : HttpNotFound("postMove", gameId)
    \/ \E gameId \in IdInputs : HttpGetCube(gameId)
    \/ \E gameId \in IdInputs : \E move \in HttpMoves : HttpMoveInvalid(gameId, move)
    \/ \E gameId \in IdInputs : \E move \in HttpMoves : HttpMove(gameId, move)

SpecServer == InitServer /\ [][NextServer]_vars

\* The clients that create sessions, through the MCP tool and through the
\* HTTP API, and read them back.
NextGames ==
    \/ \E r \in RandomSuffixes : StartCube(FALSE, r, <<>>)
    \/ \E r \in RandomSuffixes : \E draws \in Draws(DefaultScramble) :
           StartCube(TRUE, r, draws)
    \/ \E scramble_ \in BOOLEAN : \E sent \in {<<>>, <<0>>} :
           \E r \in RandomSuffixes : \E draws \in Draws(bodyDifficulty(sent)) :
               HttpCreateGame(scramble_, sent, r, draws)
    \/ \E gameId \in IdInputs : HttpGetCube(gameId)

SpecGames == InitServer /\ [][NextGames]_vars

\* The clients of the HTTP API alone: they create games and move their
\* cubes.
NextHttp ==
    \/ \E r \in RandomSuffixes : HttpCreateGame(FALSE, <<>>, r, <<>>)
    \/ \E sent \in SentDifficulties :
           \E r \in RandomSuffixes : \E draws \in Draws(bodyDifficulty(sent)) :
               HttpCreateGame(TRUE, sent, r, draws)
    \/ \E gameId \in IdInputs : HttpNotFound("postMove", gameId)
    \/ \E gameId \in IdInputs : \E move \in HttpMoves : HttpMoveInvalid(gameId, move)
    \/ \E gameId \in IdInputs : \E move \in HttpMoves : HttpMove(gameId, move)

SpecHttp == InitServer /\ [][NextHttp]_vars

\* The clients of the MCP tools alone.  Requests in flight at once are
\* handled one after the other, in any order: each handler is a synchronous
\* function body.
NextMcp ==
    \/ \E r \in RandomSuffixes : StartCube(FALSE, r, <<>>)
    \/ \E r \in RandomSuffixes : \E draws \in Draws(DefaultScramble) :
           StartCube(TRUE, r, draws)
    \/ \E gameId \in IdInputs : \E move \in SessionMoves :
           ManipulateCubeCompleted(gameId, move)
    \/ \E gameId \in IdInputs : \E move \in SessionMoves :
           ManipulateCubeActive(gameId, move)
    \/ \E gameId \in IdInputs : Finish(gameId)

SpecMcp == InitServer /\ [][NextMcp]_vars

\* The clients that only create sessions, through each of the three creates.
NextCreates ==
    \/ \E r \in RandomSuffixes : StartCube(FALSE, r, <<>>)
    \/ \E r \in RandomSuffixes : \E draws \in Draws(DefaultScramble) :
           StartCube(TRUE, r, draws)
    \/ \E r \in RandomSuffixes : HttpCreateGame(FALSE, <<>>, r, <<>>)
    \/ \E sent \in SentDifficulties :
           \E r \in RandomSuffixes : \E draws \in Draws(bodyDifficulty(sent)) :
               HttpCreateGame(TRUE, sent, r, draws)
    \/ \E draws \in TestDraws : HttpTestCreateGame(draws)

SpecCreates == InitServer /\ [][NextCreates]_vars

---------------------------------------------------------------------------
(* A stand-alone engine whose caller scrambles it.                         *)

\* The array scramble draws its moves from.
allMoves ==
    <<"U", "D", "L", "R", "F", "B", "U'", "D'", "L'", "R'", "F'", "B'">>

\* The move counts the caller passes to scramble.
ScrambleCounts == {0, 1, 2}

\* The draws of one scramble(moves): each randomMove is
\* allMoves[Math.floor(Math.random() * allMoves.length)], any element of
\* the array.
RandomDraws(moves) ==
    [1 .. moves -> {allMoves[k] : k \in 1 .. Len(allMoves)}]

\* scramble(moves), called on an engine whose history has at most MaxHistory
\* tokens.
Scramble(moves, draws) ==
    /\ Len(state.moveHistory) <= MaxHistory
    /\ state' = scramble(state, moves, draws)
    /\ thrown' = "none"
    /\ lastOp' = [op |-> "scramble", moves |-> moves, draws |-> draws]
    /\ UNCHANGED snapshots
    /\ UNCHANGED serverVars

\* scramble(): moves takes its default.
ScrambleDefault(draws) ==
    /\ Len(state.moveHistory) <= MaxHistory
    /\ state' = scramble(state, DefaultScramble, draws)
    /\ thrown' = "none"
    /\ lastOp' = [op |-> "scrambleDefault", draws |-> draws]
    /\ UNCHANGED snapshots
    /\ UNCHANGED serverVars

NextScramble ==
    \/ \E move \in SnapshotMoves : ExecuteMove(move)
    \/ \E moves \in ScrambleCounts :
           \E draws \in RandomDraws(moves) : Scramble(moves, draws)
    \/ \E draws \in Draws(DefaultScramble) : ScrambleDefault(draws)

SpecScramble == Init /\ [][NextScramble]_vars

---------------------------------------------------------------------------
(* The physical cube, in the net layout of getStateAsText: top above front, *)
(* bottom below it, left | front | right | back in one band.  x points to   *)
(* the right face, y to the top face, z to the front face.                  *)

Positions == FaceNames \X Idx \X Idx

Normal(f) ==
    CASE f = "front"  -> <<0, 0, 1>>
      [] f = "back"   -> <<0, 0, -1>>
      [] f = "right"  -> <<1, 0, 0>>
      [] f = "left"   -> <<-1, 0, 0>>
      [] f = "top"    -> <<0, 1, 0>>
      [] f = "bottom" -> <<0, -1, 0>>

\* The cubie cell that carries sticker [i][j] of face f.  Row 0 of a side
\* face is its upper edge; top row 2, bottom row 0, left column 2 and right
\* column 0 border front; back column 0 borders right, back column 2 left.
Centre(f, i, j) ==
    CASE f = "front"  -> <<j - 1, 1 - i, 1>>
      [] f = "back"   -> <<1 - j, 1 - i, -1>>
      [] f = "right"  -> <<1, 1 - i, 1 - j>>
      [] f = "left"   -> <<-1, 1 - i, j - 1>>
      [] f = "top"    -> <<j - 1, 1, i - 1>>
      [] f = "bottom" -> <<j - 1, -1, 1 - i>>

Dot(a, b) == a[1] * b[1] + a[2] * b[2] + a[3] * b[3]

Cross(a, b) ==
    <<a[2] * b[3] - a[3] * b[2],
      a[3] * b[1] - a[1] * b[3],
      a[1] * b[2] - a[2] * b[1]>>

\* v turned a quarter turn about the axis n, clockwise for an observer who
\* looks at the face of normal n from outside.
Clockwise(n, v) ==
    LET c == Cross(v, n)
        d == Dot(n, v)
    IN  <<c[1] + n[1] * d, c[2] + n[2] * d, c[3] + n[3] * d>>

\* For each turning face t and each position, the position whose sticker a
\* clockwise quarter turn of t carries there.
PhysicalSource ==
    [t \in FaceNames |->
        [pos \in Positions |->
            LET n == Normal(t)
            IN  IF Dot(Centre(pos[1], pos[2], pos[3]), n) # 1
                THEN pos
                ELSE CHOOSE q \in Positions :
                        /\ Clockwise(n, Centre(q[1], q[2], q[3]))
                               = Centre(pos[1], pos[2], pos[3])
                        /\ Clockwise(n, Normal(q[1])) = Normal(pos[1])]]

TurnedFace(X) ==
    CASE X = "U" -> "top"
      [] X = "D" -> "bottom"
      [] X = "L" -> "left"
      [] X = "R" -> "right"
      [] X = "F" -> "front"
      [] X = "B" -> "back"

PhysicalTurn(X, faces) ==
    [f \in FaceNames |-> [i \in Idx |-> [j \in Idx |->
        LET q == PhysicalSource[TurnedFace(X)][<<f, i, j>>]
        IN  faces[q[1]][q[2]][q[3]]]]]

QuarterTurns == {"U", "D", "L", "R", "F", "B"}

Counter(X) == validMoves[6 + CHOOSE k \in 1 .. 6 : validMoves[k] = X]

Half(X) == validMoves[12 + CHOOSE k \in 1 .. 6 : validMoves[k] = X]

\* A step that executes the quarter turn X leaves the faces the physical
\* turn of X gives.
IsPhysicalStep(X) ==
    state'.moveHistory = Append(state.moveHistory, X)
        => state'.faces = PhysicalTurn(X, state.faces)

---------------------------------------------------------------------------
(* Claims about the engine's moves.                                        *)

RECURSIVE Times(_, _, _)
\* executeMove(move) called n times in a row on an engine whose state is s.
Times(s, move, n) ==
    IF n = 0 THEN s ELSE executeMove(Times(s, move, n - 1), move)

RECURSIVE Replay(_)
\* The state of a new engine after the tokens of h, executed in order.
Replay(h) ==
    IF h = <<>>
    THEN createSolvedCube
    ELSE executeMove(Replay(SubSeq(h, 1, Len(h) - 1)), h[Len(h)])

\* C1: in every state reachable from a new solved cube, four clockwise
\* quarter turns of any one face in a row, and two half turns of it in a row,
\* give back the faces they started from.
C1_FourQuarterTurnsAreIdentity ==
    \A X \in QuarterTurns :
        /\ Times(state, X, 4).faces = state.faces
        /\ Times(state, Half(X), 2).faces = state.faces

\* C2: whenever the last two executed moves are X and then X', the faces are
\* those the cube had before the two moves.
C2_InverseLaw ==
    LET h == state.moveHistory
        n == Len(h)
    IN  \A X \in QuarterTurns :
            (n >= 2 /\ h[n - 1] = X /\ h[n] = Counter(X))
                => state.faces = Replay(SubSeq(h, 1, n - 2)).faces

\* C3: every step that executes a clockwise quarter turn of a face moves
\* each sticker where the physical turn of that face carries it.
C3_QuarterTurnsArePhysical ==
    [][\A X \in QuarterTurns : IsPhysicalStep(X)]_vars

\* The five quarter turns other than B are the physical ones.
QuarterTurnsButBArePhysical ==
    [][\A X \in QuarterTurns \ {"B"} : IsPhysicalStep(X)]_vars

\* The stickers of a state, position by position.
StickerAt(faces, pos) == faces[pos[1]][pos[2]][pos[3]]

StickersOf(faces) == {StickerAt(faces, pos) : pos \in Positions}

\* No two positions hold the same sticker.
Distinct(faces) == Cardinality(StickersOf(faces)) = Cardinality(Positions)

\* C4: a move executed on a state whose 54 stickers are pairwise distinct
\* leaves 54 pairwise distinct stickers, the same ones: none is duplicated
\* and none is lost.
C4_MovesAreBijections ==
    [][(Distinct(state.faces) /\ state'.moveHistory # state.moveHistory)
          => /\ Distinct(state'.faces)
             /\ StickersOf(state'.faces) = StickersOf(state.faces)]_vars

\* C4's case: a labelled state that three moves, the last a counter-clockwise
\* turn of the back face, have permuted.
C4_Witness ==
    /\ Len(state.moveHistory) = 3
    /\ state.moveHistory[3] = "B'"
    /\ Distinct(state.faces)
    /\ state.faces # LabelledCube.faces

\* The six colour codes of COLORS.
Colours == {"W", "Y", "R", "O", "B", "G"}

CountOf(faces, c) ==
    Cardinality({pos \in Positions : StickerAt(faces, pos) = c})

\* C5: in every state reachable from a new solved cube each of the six
\* colours is on exactly nine stickers.
C5_NineStickersPerColour ==
    \A c \in Colours : CountOf(state.faces, c) = Cardinality(Idx \X Idx)

\* C5's case: an unsolved state reached by three moves on three faces.
C5_Witness ==
    /\ state.moveHistory = <<"R", "U'", "B2">>
    /\ ~ state.solved
    /\ state.faces.top # createSolvedCube.faces.top

---------------------------------------------------------------------------
(* Claims about the sessions.  A session is a cell of heap; a step is one  *)
(* request, and response' tells which.                                     *)

\* This step is a manipulateCube call that reached the session object ref.
McpMoveOn(ref) ==
    /\ calls' = calls + 1
    /\ response'.kind = "manipulateCube"
    /\ games[response'.gameId].session = ref

\* This step is a POST /api/cube/:gameId/move that reached the session
\* object ref.
HttpMoveOn(ref) ==
    /\ calls' = calls + 1
    /\ response'.kind = "postMove"
    /\ response'.code # 404
    /\ sessions[response'.gameId] = ref

IsPrefix(a, b) == Len(a) <= Len(b) /\ SubSeq(b, 1, Len(a)) = a

\* The clock readings of one step.
DuringStep == now .. now'

\* C6: a move request, through manipulateCube or through the HTTP route,
\* against a session whose status is completed leaves the session's
\* cubeState as it was and does not lengthen its moveHistory.
C6_CompletedSessionNeverMoves ==
    [][\A ref \in DOMAIN heap :
          ((McpMoveOn(ref) \/ HttpMoveOn(ref)) /\ heap[ref].status = "completed")
              => /\ heap'[ref].cubeState = heap[ref].cubeState
                 /\ Len(heap'[ref].cubeState.moveHistory)
                        <= Len(heap[ref].cubeState.moveHistory)]_vars

\* C7: across every operation the moveHistory a session holds before it is
\* a prefix of the moveHistory the session holds after it.
C7_MoveHistoryAppendOnly ==
    [][\A ref \in DOMAIN heap :
          IsPrefix(heap[ref].cubeState.moveHistory,
                   heap'[ref].cubeState.moveHistory)]_vars

\* C8: a session whose status is completed is completed after every
\* operation.
C8_CompletedIsTerminal ==
    [][\A ref \in DOMAIN heap :
          heap[ref].status = "completed" => heap'[ref].status = "completed"]_vars

\* C8's case: a session that finish completed with its cube unsolved, and
\* that an HTTP move has since been executed on.
C8_Witness ==
    /\ response.kind = "postMove"
    /\ response.code = 200
    /\ heap[sessions[response.gameId]].status = "completed"
    /\ ~ isSolved(heap[sessions[response.gameId]].cubeState.faces)
    /\ response.gameId \in DOMAIN games
    /\ heap[sessions[response.gameId]].cubeState
           # getState(games[response.gameId].cube)

\* C9: a move executed on an active session, through either entry point,
\* leaves the session completed if the state after the move is solved and
\* active otherwise, stores that state in the session and sets lastActivity
\* to a clock reading of the step.
C9_StatusFollowsAcceptedMove ==
    [][\A ref \in DOMAIN heap :
          LET Effect(after) ==
                  /\ heap'[ref].cubeState = after
                  /\ heap'[ref].status =
                         IF isSolved(after.faces) THEN "completed" ELSE "active"
                  /\ heap'[ref].lastActivity \in DuringStep
          IN  heap[ref].status = "active" =>
                  /\ (McpMoveOn(ref) /\ response'.executed) =>
                         Effect(executeMove(games[response'.gameId].cube,
                                            response'.move))
                  /\ (HttpMoveOn(ref) /\ response'.code = 200) =>
                         Effect(executeMove(heap[ref].cubeState,
                                            response'.move))]_vars

\* C9's case: a move through the HTTP route has just solved the cube of a
\* session, which is completed.
C9_Witness ==
    /\ response.kind = "postMove"
    /\ response.code = 200
    /\ response.move = "U'"
    /\ response.state.solved
    /\ response.state.moveHistory = <<"U", "U'">>
    /\ heap[sessions[response.gameId]].status = "completed"
    /\ heap[sessions[response.gameId]].cubeState = response.state

\* C10: finish on a session of games leaves the session completed, its
\* lastActivity a clock reading of the step, and its cubeState and the
\* engine as they were.
C10_FinishCompletesAndKeepsCube ==
    [][\A gameId \in DOMAIN games :
          (calls' = calls + 1 /\ response'.kind = "finish"
              /\ response'.gameId = gameId)
              => LET ref == games[gameId].session
                 IN  /\ heap'[ref].status = "completed"
                     /\ heap'[ref].lastActivity \in DuringStep
                     /\ heap'[ref].cubeState = heap[ref].cubeState
                     /\ games'[gameId] = games[gameId]]_vars

\* C10's case: finish has just completed a session whose cube is not
\* solved, at a clock reading later than the session's creation.
C10_Witness ==
    /\ response.kind = "finish"
    /\ ~ response.cube.solved
    /\ heap[games[response.gameId].session].status = "completed"
    /\ ~ heap[games[response.gameId].session].cubeState.solved
    /\ heap[games[response.gameId].session].lastActivity
           > heap[games[response.gameId].session].createdAt

---------------------------------------------------------------------------
(* Claims about the engine's solved flag, its history and its errors.      *)

\* Each of the six faces has nine identical stickers.
NineIdentical(faces) ==
    \A f \in FaceNames :
        Cardinality({faces[f][i][j] : i \in Idx, j \in Idx}) = 1

\* This step is a call of executeMove that returned without an error.
MoveApplied ==
    /\ lastOp'.op = "executeMove"
    /\ thrown' = "none"

\* C11: after every executeMove that succeeds, the stored solved flag is
\* true exactly when each of the six faces has nine identical stickers, and
\* isSolved() returns the same value.
C11_FlagFollowsEveryMove ==
    [][MoveApplied =>
          /\ state'.solved = NineIdentical(state'.faces)
          /\ isSolved(state'.faces) = state'.solved]_vars

\* C11's case: a second move has made the cube solved again, after a first
\* move that left it unsolved.
C11_Witness ==
    /\ state.moveHistory = <<"D", "D'">>
    /\ state.solved
    /\ lastOp = [op |-> "executeMove", arg |-> "D'"]

\* C12: after setState(s) the solved flag getState() returns is true exactly
\* when each of the six faces of s has nine identical stickers, whatever
\* flag s carried.
C12_SetStateRecomputesFlag ==
    [][lastOp'.op = "setState" =>
          getState(state').solved = NineIdentical(Seen(lastOp'.arg).faces)]_vars

\* C13: a call of executeMove that succeeds appends its own token at the
\* end of moveHistory and a call that is rejected leaves moveHistory as it
\* was, so that on an engine made by the constructor moveHistory is the
\* sequence of the tokens applied, in call order; the moveHistory of a
\* scrambled new engine is the sequence of its draws.
C13_HistoryRecordsSuccesses ==
    [][/\ IF MoveApplied
          THEN state'.moveHistory = Append(state.moveHistory, lastOp'.arg)
          ELSE state'.moveHistory = state.moveHistory
       /\ \A d \in Draws(DefaultScramble) : scrambledCube[d].moveHistory = d]_vars

\* C13's case: a rejected call after three applied moves.
C13_Witness ==
    /\ state.moveHistory = <<"U", "R2", "F'">>
    /\ thrown = "Unknown move"
    /\ lastOp = [op |-> "executeMove", arg |-> "X"]

\* C14: executeMove with a token outside the alphabet of 18 fails with an
\* error and leaves the faces, the solved flag and moveHistory as they were.
C14_UnknownMoveChangesNothing ==
    [][(lastOp'.op = "executeMove" /\ lastOp'.arg \notin KnownMoves)
          => /\ thrown' = "Unknown move"
             /\ state' = state]_vars

\* C14's case: a call rejected on a cube that one move has left unsolved.
C14_Witness ==
    /\ thrown = "Unknown move"
    /\ lastOp = [op |-> "executeMove", arg |-> "X"]
    /\ state.moveHistory = <<"L">>
    /\ ~ state.solved

\* C16: getState returns a copy: the object it returns holds what the
\* engine holds, and the call changes neither the engine's state nor any
\* other object the caller holds, so two calls in a row return equal
\* snapshots; a write into an object the caller holds, whether getState
\* returned it or setState was given it, changes neither the engine's state
\* nor any other object the caller holds.
C16_SnapshotsAreCopies ==
    [][\A k \in Slots :
          /\ lastOp' = [op |-> "getState", arg |-> k] =>
                /\ Seen(k)' = state
                /\ state' = state
                /\ \A i \in (DOMAIN snapshots) \ {k} : Seen(i)' = Seen(i)
          /\ lastOp' = [op |-> "mutate", arg |-> k] =>
                /\ state' = state
                /\ \A i \in (DOMAIN snapshots) \ {k} : Seen(i)' = Seen(i)]_vars

\* C16's case: the caller has taken a snapshot, cleared its flag, passed it
\* to setState and then painted a sticker of it; the engine holds the
\* cleared flag and not the paint.
C16_Witness ==
    /\ lastOp = [op |-> "mutate", arg |-> "first"]
    /\ DOMAIN snapshots = {"first"}
    /\ ~ state.solved
    /\ state.faces = createSolvedCube.faces
    /\ Seen("first").faces.top[0][0] = "Y"

\* C17: a step that executes X' leaves the faces three clockwise quarter
\* turns of X give, a step that executes X2 the faces two of them give, and
\* either appends its one token to moveHistory.
C17_PrimeIsThreeHalfIsTwo ==
    [][\A X \in QuarterTurns :
          /\ (MoveApplied /\ lastOp'.arg = Counter(X)) =>
                /\ state'.faces = Times(state, X, 3).faces
                /\ state'.moveHistory = Append(state.moveHistory, Counter(X))
          /\ (MoveApplied /\ lastOp'.arg = Half(X)) =>
                /\ state'.faces = Times(state, X, 2).faces
                /\ state'.moveHistory = Append(state.moveHistory, Half(X))]_vars

\* C17's case: a counter-clockwise turn and then a half turn of another
\* face have been executed on the labelled cube.
C17_Witness ==
    /\ state.moveHistory = <<"R'", "F2">>
    /\ lastOp = [op |-> "executeMove", arg |-> "F2"]
    /\ state.faces # LabelledCube.faces

\* C18: on a new cube isSolved() is true, the solved flag is true and
\* moveHistory is empty; after any single move on the new cube, whichever
\* of the 18 tokens it is, isSolved() is false.
C18_NewCubeSolvedOneMoveUnsolved ==
    /\ state.moveHistory = <<>> =>
           (state.solved /\ isSolved(state.faces))
    /\ Len(state.moveHistory) = 1 =>
           (~ isSolved(state.faces) /\ ~ state.solved)

\* C18's case: a half turn of the back face on the new cube, which leaves
\* the front face with nine identical stickers.
C18_Witness ==
    /\ state.moveHistory = <<"B2">>
    /\ ~ state.solved
    /\ state.faces.front = createSolvedCube.faces.front

\* This step executes the token move on an engine whose moveHistory is h.
Executes(h, move) ==
    /\ state.moveHistory = h
    /\ MoveApplied
    /\ lastOp'.arg = move

\* C19, as stated: from a new cube, U and then U' leave the original faces
\* and the moveHistory U, U', and the solved flag is true before the first
\* move, between the two moves and after the second.
C19_SolvedThroughout ==
    [][/\ Executes(<<>>, "U") =>
             /\ state.solved
             /\ state'.solved
             /\ state'.moveHistory = <<"U">>
       /\ Executes(<<"U">>, "U'") =>
             /\ state'.faces = createSolvedCube.faces
             /\ state'.moveHistory = <<"U", "U'">>
             /\ state'.solved]_vars

\* C19, amended: from a new cube, U and then U' leave the original faces
\* and the moveHistory U, U'; the solved flag is true before the first move
\* and after the second, and false between the two.
C19_SolvedBeforeAndAfter ==
    [][/\ Executes(<<>>, "U") =>
             /\ state.solved
             /\ ~ state'.solved
             /\ state'.moveHistory = <<"U">>
       /\ Executes(<<"U">>, "U'") =>
             /\ state'.faces = createSolvedCube.faces
             /\ state'.moveHistory = <<"U", "U'">>
             /\ state'.solved]_vars

\* C19's case: the end of the scenario.
C19_Witness ==
    /\ state.moveHistory = <<"U", "U'">>
    /\ lastOp = [op |-> "executeMove", arg |-> "U'"]
    /\ thrown = "none"
    /\ state.solved

---------------------------------------------------------------------------
(* Claims about lookups and creation.                                      *)

\* This step is a call of manipulateCube or finish with an id that is not
\* in games, or of an HTTP cube route with an id that is not in sessions.
UnregisteredRequest ==
    /\ calls' = calls + 1
    /\ \/ /\ response'.kind \in {"error", "manipulateCube", "finish"}
          /\ response'.gameId \notin DOMAIN games
       \/ /\ response'.kind \in {"getCube", "postMove"}
          /\ response'.gameId \notin DOMAIN sessions

\* This step's response is a not-found error.
NotFoundReported ==
    IF response'.kind = "error"
    THEN response'.tool \in {"manipulateCube", "finish"}
    ELSE response'.code = 404

\* C15: manipulateCube, finish and the HTTP cube routes called with an id
\* that is not registered report a not-found error, create no session and
\* leave every session's cubeState, status and lastActivity, and both maps,
\* as they were.
C15_UnknownIdChangesNothing ==
    [][UnregisteredRequest =>
          /\ NotFoundReported
          /\ heap' = heap
          /\ sessions' = sessions
          /\ games' = games]_vars

\* C15's case: finish has been rejected for an unknown id while a session
\* that has executed a move exists.
C15_Witness ==
    /\ response = [kind |-> "error", tool |-> "finish", gameId |-> UnknownId]
    /\ Len(heap) = 1
    /\ heap[1].cubeState.moveHistory = <<"U">>
    /\ heap[1].status = "active"

\* This step creates a session without scrambling: startCube with scramble
\* false, or POST /api/games with scramble false or with a difficulty of 0.
CreatedUnscrambled ==
    /\ calls' = calls + 1
    /\ \/ /\ response'.kind = "startCube"
          /\ ~ response'.scramble
       \/ /\ response'.kind = "postGames"
          /\ (~ response'.scramble \/ response'.difficulty = 0)

\* C20: a session created without scrambling starts with status active, a
\* solved cubeState and an empty moveHistory.
C20_UnscrambledSessionStartsActive ==
    [][CreatedUnscrambled =>
          LET session == heap'[sessions'[response'.gameId]]
          IN  /\ session.status = "active"
              /\ session.cubeState.solved
              /\ isSolved(session.cubeState.faces)
              /\ session.cubeState.moveHistory = <<>>]_vars

\* C20's case: POST /api/games has created a session with scramble true and
\* a difficulty of 0.
C20_Witness ==
    /\ response.kind = "postGames"
    /\ response.scramble
    /\ response.difficulty = 0
    /\ heap[sessions[response.gameId]].status = "active"
    /\ heap[sessions[response.gameId]].cubeState.solved
    /\ heap[sessions[response.gameId]].scrambleMoves = 0

---------------------------------------------------------------------------
(* Claims about scramble.                                                  *)

\* The twelve quarter-turn tokens: the six faces and their primes.
QuarterTurnTokens ==
    {"U", "D", "L", "R", "F", "B", "U'", "D'", "L'", "R'", "F'", "B'"}

RECURSIVE StatesAfter(_, _)
\* The states an engine whose state is s goes through when executeMove is
\* called with each of tokens in order: one state after each call.
StatesAfter(s, tokens) ==
    LET Rest(first) == <<first>> \o StatesAfter(first, Tail(tokens))
    IN  IF tokens = <<>>
        THEN <<>>
        ELSE Call(Rest, executeMove(s, Head(tokens)))

\* This step is a call of scramble that applies n moves.
Scrambles(n) ==
    \/ lastOp'.op = "scramble" /\ lastOp'.moves = n
    \/ lastOp'.op = "scrambleDefault" /\ n = 20

\* C21: scramble(n) for an integer n >= 0 applies exactly n moves, each one
\* of the twelve quarter-turn tokens and each through executeMove: the
\* moveHistory grows by exactly n tokens, all quarter turns, the state it
\* leaves is the one n calls of executeMove with those tokens leave, and after
\* every single draw the solved flag is true exactly when each face has nine
\* identical stickers; scramble() without an argument applies 20 moves.
C21_ScrambleAppliesNQuarterTurns ==
    [][\A n \in 0 .. 20 :
          Scrambles(n) =>
              \E drawn \in {SubSeq(state'.moveHistory,
                                   Len(state.moveHistory) + 1,
                                   Len(state'.moveHistory))} :
              \E trail \in {StatesAfter(state, drawn)} :
                  /\ Len(drawn) = n
                  /\ state'.moveHistory = state.moveHistory \o drawn
                  /\ \A i \in 1 .. n : drawn[i] \in QuarterTurnTokens
                  /\ state' = IF n = 0 THEN state ELSE trail[n]
                  /\ \A i \in 1 .. Len(trail) :
                         trail[i].solved = NineIdentical(trail[i].faces)]_vars

\* C21's case: scramble(2) on an engine that had executed one move has drawn
\* a counter-clockwise and a clockwise turn.
C21_Witness ==
    /\ lastOp.op = "scramble"
    /\ lastOp.moves = 2
    /\ state.moveHistory = <<"U", "B'", "R">>

---------------------------------------------------------------------------
(* Claims about the workflow the responses guide.                          *)

\* This step is a manipulateCube call on a session startCube stored.
ManipulateCubeAnswered ==
    /\ calls' = calls + 1
    /\ response'.kind = "manipulateCube"

\* C22: the response of every manipulateCube call on an existing session,
\* whatever the session's status, carries nextAction "finish" if the cube
\* state it returns is solved and "manipulateCube" if it is not.
C22_NextActionFollowsSolved ==
    [][ManipulateCubeAnswered =>
          response'.nextAction =
              IF response'.cube.solved THEN "finish" ELSE "manipulateCube"]_vars

\* This step is a startCube call.
StartCubeAnswered ==
    /\ calls' = calls + 1
    /\ response'.kind = "startCube"

\* C25: startCube returns nextAction "manipulateCube" for every session it
\* starts, scrambled or not.
C25_StartPointsToManipulate ==
    [][StartCubeAnswered => response'.nextAction = "manipulateCube"]_vars

---------------------------------------------------------------------------
(* Claims about what the viewers are sent.                                 *)

\* The gameState events this step broadcasts.
Emitted == SubSeq(broadcasts', Len(broadcasts) + 1, Len(broadcasts'))

\* C23: whenever the status of a session changes from active to completed,
\* by a move that solves the cube or by finish, a gameState event that
\* carries the status completed is broadcast for that game id.
C23_CompletionIsBroadcast ==
    [][\A ref \in DOMAIN heap :
          (heap[ref].status = "active" /\ heap'[ref].status = "completed")
              => \E i \in DOMAIN Emitted :
                     /\ Emitted[i].gameId = heap[ref].id
                     /\ Emitted[i].status = "completed"]_vars

\* This step is a move request that was executed on the session object ref:
\* a manipulateCube call outside the completed branch, or a POST move
\* answered with 200.
AcceptedMoveOn(ref) ==
    \/ McpMoveOn(ref) /\ response'.executed
    \/ HttpMoveOn(ref) /\ response'.code = 200

\* C24: every accepted move, through manipulateCube or through the HTTP move
\* route, is followed by exactly one gameState broadcast for that game id,
\* whose state is the session's cubeState after the move and whose status is
\* the session's status at that moment; the event is emitted after all the
\* events of the moves accepted before.
C24_OneBroadcastPerAcceptedMove ==
    [][\A ref \in DOMAIN heap :
          AcceptedMoveOn(ref) =>
              /\ Emitted = <<[gameId |-> response'.gameId,
                              state |-> heap'[ref].cubeState,
                              status |-> heap'[ref].status]>>
              /\ broadcasts' = broadcasts \o Emitted]_vars

\* C24's case: a move through manipulateCube and then a different one through
\* the HTTP route were accepted on one game, and two events were emitted.
C24_Witness ==
    /\ Len(broadcasts) = 2
    /\ response.kind = "postMove"
    /\ response.code = 200
    /\ broadcasts[1].gameId = response.gameId
    /\ broadcasts[2].gameId = response.gameId
    /\ broadcasts[1].state.moveHistory = <<"U">>
    /\ broadcasts[2].state = heap[sessions[response.gameId]].cubeState
    /\ broadcasts[2].state.moveHistory = <<"U", "U'">>
    /\ broadcasts[2].status = "completed"

---------------------------------------------------------------------------
(* Claims about the games the HTTP API creates.                            *)

\* This step is a POST /api/games with scrambling on.
CreatedScrambled ==
    /\ calls' = calls + 1
    /\ response'.kind = "postGames"
    /\ response'.scramble

\* C26: for a game created through POST /api/games with scrambling on, the
\* number of scramble moves applied is between 1 and 100; a difficulty that
\* is missing or outside 1..100 is replaced by the default 20.
C26_DifficultyIsValidated ==
    [][CreatedScrambled =>
          LET session == heap'[sessions'[response'.gameId]]
              applied == Len(session.cubeState.moveHistory)
              sent == response'.sent
          IN  /\ applied \in 1 .. 100
              /\ (sent = <<>> \/ sent[1] \notin 1 .. 100) => applied = 20]_vars

---------------------------------------------------------------------------
(* Claims about the session and the engine paired with it.                 *)

\* C27: for every game started through startCube, after every handler the
\* cubeState stored in the session equals getState() of the engine paired
\* with the session in games, whatever the interleaving of manipulateCube,
\* finish and HTTP move requests on the game.
C27_SessionMirrorsEngine ==
    \A gameId \in DOMAIN games :
        heap[games[gameId].session].cubeState = getState(games[gameId].cube)

\* C28: when several manipulateCube requests for one active session are in
\* flight at once and no HTTP move is made, each handler runs to completion
\* before the next, so no update is lost: every accepted move appends its
\* token to the history the handler before it left and turns the faces that
\* handler left, and no other request changes the session's cubeState.
C28_NoLostUpdate ==
    [][\A ref \in DOMAIN heap :
          IF McpMoveOn(ref) /\ response'.executed
          THEN \E after \in {executeMove(heap[ref].cubeState, response'.move)} :
                   /\ heap'[ref].cubeState.moveHistory =
                          Append(heap[ref].cubeState.moveHistory, response'.move)
                   /\ heap'[ref].cubeState.faces = after.faces
          ELSE heap'[ref].cubeState = heap[ref].cubeState]_vars

\* C28's case: two manipulateCube requests for one session were handled
\* within the millisecond the session was created in, and both tokens are in
\* the history.
C28_Witness ==
    /\ Len(heap) = 1
    /\ response.kind = "manipulateCube"
    /\ response.executed
    /\ heap[1].lastActivity = heap[1].createdAt
    /\ heap[1].cubeState.moveHistory = <<"U'", "U'">>
    /\ heap[1].cubeState = getState(games[response.gameId].cube)

\* C29: in every reachable state a session whose status is completed and on
\* which finish was never called has a cubeState whose solved flag is true:
\* a session completed by solving stays solved.
C29_CompletedBySolvingStaysSolved ==
    \A ref \in DOMAIN heap :
        (heap[ref].status = "completed" /\ ref \notin finished)
            => heap[ref].cubeState.solved

---------------------------------------------------------------------------
(* Claims about single moves.                                              *)

\* This step is a call of executeMove("U") that returned.
ExecutesU ==
    /\ MoveApplied
    /\ lastOp'.arg = "U"

\* C30: executeMove("U") turns the top face 90 degrees clockwise (the
\* sticker at row i, column j goes to row j, column 2 - i) and cycles the
\* rows 0 of the four side faces: front's old row goes to left, left's to
\* back, back's to right and right's to front, each in unchanged
\* left-to-right order.
C30_UTurnsTopAndCyclesRows ==
    [][ExecutesU =>
          /\ \A i \in Idx : \A j \in Idx :
                 state'.faces.top[j][2 - i] = state.faces.top[i][j]
          /\ state'.faces.left[0] = state.faces.front[0]
          /\ state'.faces.back[0] = state.faces.left[0]
          /\ state'.faces.right[0] = state.faces.back[0]
          /\ state'.faces.front[0] = state.faces.right[0]]_vars

\* C30's case: U was executed on the labelled state after a turn of the
\* front face; left's row 0 holds three different labels that were on
\* front's row 0.
C30_Witness ==
    /\ state.moveHistory = <<"F", "U">>
    /\ lastOp = [op |-> "executeMove", arg |-> "U"]
    /\ state.faces.left[0] =
           executeMove(LabelledCube, "F").faces.front[0]
    /\ Cardinality({state.faces.left[0][j] : j \in Idx}) = 3
    /\ state.faces.top[0][2] = LabelledCube.faces.top[0][0]

\* This step is a call of executeMove("D") that returned.
ExecutesD ==
    /\ MoveApplied
    /\ lastOp'.arg = "D"

\* C31: executeMove("D") turns the bottom face 90 degrees clockwise, as seen
\* from below (the sticker at row i, column j goes to row j, column 2 - i),
\* and cycles the rows 2 of the four side faces in the sense opposite to U:
\* front's old row goes to right, right's to back, back's to left and left's
\* to front, each in unchanged order.
C31_DTurnsBottomAndCyclesRows ==
    [][ExecutesD =>
          /\ \A i \in Idx : \A j \in Idx :
                 state'.faces.bottom[j][2 - i] = state.faces.bottom[i][j]
          /\ \A i \in Idx : \A j \in Idx :
                 \E q \in {PhysicalSource["bottom"][<<"bottom", i, j>>]} :
                     state'.faces.bottom[i][j] = state.faces[q[1]][q[2]][q[3]]
          /\ state'.faces.right[2] = state.faces.front[2]
          /\ state'.faces.back[2] = state.faces.right[2]
          /\ state'.faces.left[2] = state.faces.back[2]
          /\ state'.faces.front[2] = state.faces.left[2]]_vars

\* C31's case: D was executed on the labelled state after a turn of the
\* right face; right's row 2 holds the three labels that were on front's
\* row 2, one of them brought there by the first turn.
C31_Witness ==
    /\ state.moveHistory = <<"R", "D">>
    /\ lastOp = [op |-> "executeMove", arg |-> "D"]
    /\ state.faces.right[2] = executeMove(LabelledCube, "R").faces.front[2]
    /\ state.faces.right[2] # LabelledCube.faces.front[2]
    /\ state.faces.bottom[0][2] = executeMove(LabelledCube, "R").faces.bottom[0][0]

\* The stickers of the layer of face X: the 9 of the face and the 12 of the
\* strips of the four adjacent faces that border it.
Layer(X) ==
    {pos \in Positions :
        Dot(Centre(pos[1], pos[2], pos[3]), Normal(TurnedFace(X))) = 1}

\* The face opposite to the face of X.
Opposite(X) ==
    CHOOSE f \in FaceNames : Dot(Normal(f), Normal(TurnedFace(X))) = -1

\* C32: a clockwise quarter turn of face X changes only the 9 stickers of
\* face X and the 12 stickers of the four adjacent strips: the other 33,
\* among them the whole opposite face and the centre of every face other than
\* X, are unchanged; the turned face and the cycled strips show in the same
\* state, the one the call leaves, and no state in between is ever held.
C32_QuarterTurnFrame ==
    [][\A X \in QuarterTurns :
          (MoveApplied /\ lastOp'.arg = X) =>
              \E layer \in {Layer(X)} :
                  /\ Cardinality(layer) = 21
                  /\ Cardinality({pos \in layer : pos[1] = TurnedFace(X)}) = 9
                  /\ \A pos \in Positions \ layer :
                         StickerAt(state'.faces, pos) = StickerAt(state.faces, pos)
                  /\ \A i \in Idx : \A j \in Idx :
                         <<Opposite(X), i, j>> \notin layer
                  /\ \A f \in FaceNames \ {TurnedFace(X)} :
                         <<f, 1, 1>> \notin layer
                  /\ (Distinct(state.faces) =>
                         \A pos \in layer \ {<<TurnedFace(X), 1, 1>>} :
                            StickerAt(state'.faces, pos)
                                # StickerAt(state.faces, pos))]_vars

\* C32's case: B was executed on the labelled state after a turn of the top
\* face; the front face, opposite to back, is as the first turn left it, and
\* the back face and top's row 0 have both changed.
C32_Witness ==
    /\ state.moveHistory = <<"U", "B">>
    /\ lastOp = [op |-> "executeMove", arg |-> "B"]
    /\ state.faces.front = executeMove(LabelledCube, "U").faces.front
    /\ state.faces.back # executeMove(LabelledCube, "U").faces.back
    /\ state.faces.top[0] # executeMove(LabelledCube, "U").faces.top[0]
    /\ state.faces.top[1] = executeMove(LabelledCube, "U").faces.top[1]

---------------------------------------------------------------------------
(* Claims about the HTTP move route's errors.                              *)

\* The 18 symbols of the move alphabet.
Alphabet ==
    QuarterTurnTokens \cup {"U2", "D2", "L2", "R2", "F2", "B2"}

\* This step is a POST /api/cube/:gameId/move for a registered session with
\* a token outside the alphabet.
HttpInvalidMoveOn(ref) ==
    /\ HttpMoveOn(ref)
    /\ response'.move \notin Alphabet

\* C33: POST /api/cube/:gameId/move with a token outside the 18-symbol
\* alphabet is answered with an error and leaves the session's cubeState,
\* status and lastActivity unchanged and emits no gameState broadcast.
C33_InvalidHttpMoveChangesNothing ==
    [][\A ref \in DOMAIN heap :
          HttpInvalidMoveOn(ref) =>
              /\ response'.code >= 400
              /\ heap'[ref].cubeState = heap[ref].cubeState
              /\ heap'[ref].status = heap[ref].status
              /\ heap'[ref].lastActivity = heap[ref].lastActivity
              /\ broadcasts' = broadcasts]_vars

\* C33's case: a session that had accepted a move through the HTTP route was
\* then sent a token outside the alphabet, and still holds that one move.
C33_Witness ==
    /\ response.kind = "postMove"
    /\ response.code = 400
    /\ response.move = "X"
    /\ Len(broadcasts) = 1
    /\ heap[sessions[response.gameId]].cubeState.moveHistory = <<"U">>
    /\ heap[sessions[response.gameId]].cubeState = broadcasts[1].state

---------------------------------------------------------------------------
(* Claims about replacing the engine's state.                              *)

\* The moves tried on a rebuilt engine: a clockwise, a counter-clockwise and
\* a half turn.
RoundTripMoves == {"U", "B'", "F2"}

---------------------------------------------------------------------------
(* Claims about the sessions the creates register.                         *)

\* This step is a POST /api/games.
HttpGameCreated ==
    /\ calls' = calls + 1
    /\ response'.kind = "postGames"

\* C35: for a session created by POST /api/games the recorded scrambleMoves
\* is the number of scramble moves applied at creation, the length of the
\* new session's moveHistory, for every scramble flag and difficulty.
C35_ScrambleMovesIsHistoryLength ==
    [][HttpGameCreated =>
          LET session == heap'[sessions'[response'.gameId]]
          IN  session.scrambleMoves = Len(session.cubeState.moveHistory)]_vars

\* This step is a create: startCube, POST /api/games or
\* POST /api/test/create-game.
SessionCreated ==
    /\ calls' = calls + 1
    /\ response'.kind \in {"startCube", "postGames", "testCreateGame"}

\* C36: creating a session never replaces an existing one: every create
\* registers the new session under an id that is not yet in the session map,
\* so the number of registered sessions grows by exactly one, also when two
\* creates happen within one clock millisecond.
C36_CreateNeverReplaces ==
    [][SessionCreated =>
          /\ response'.gameId \notin DOMAIN sessions
          /\ Cardinality(DOMAIN sessions')
                 = Cardinality(DOMAIN sessions) + 1]_vars

\* C37: every session registered in the visualization server's session map
\* can be operated on through the MCP tools: manipulateCube and finish with
\* its id never fail with "not found", that is, the games map and the
\* session map hold the same set of ids.
C37_MapsHoldTheSameIds ==
    DOMAIN games = DOMAIN sessions

---------------------------------------------------------------------------
(* Claims about pairs of moves.                                            *)

\* The clockwise quarter turn of the face opposite to the face of X.
OppositeTurn(X) ==
    CASE X = "U" -> "D"
      [] X = "D" -> "U"
      [] X = "L" -> "R"
      [] X = "R" -> "L"
      [] X = "F" -> "B"
      [] X = "B" -> "F"

\* C38: quarter turns of opposite faces commute: from every state, U then D
\* leaves the same faces as D then U, and likewise L and R, F and B.  Checked
\* where X is executed: the opposite turn after X against X after the
\* opposite turn, both from the state X was executed on.
C38_OppositeTurnsCommute ==
    [][\A X \in QuarterTurns :
          (MoveApplied /\ lastOp'.arg = X) =>
              \E first \in {executeMove(state, OppositeTurn(X))} :
              \E XThenOpposite \in {executeMove(state', OppositeTurn(X))} :
              \E oppositeThenX \in {executeMove(first, X)} :
                  /\ XThenOpposite.faces = oppositeThenX.faces
                  /\ XThenOpposite.faces # state'.faces
                  /\ XThenOpposite.faces # first.faces]_vars

\* C38's case: B was executed after F and U on the labelled state.
C38_Witness ==
    /\ state.moveHistory = <<"U", "F", "B">>
    /\ lastOp = [op |-> "executeMove", arg |-> "B"]
    /\ state.faces =
           executeMove(executeMove(executeMove(LabelledCube, "U"), "B"), "F").faces

---------------------------------------------------------------------------
(* Claims about the colours of a cube that started solved.                 *)

\* The canonical arrangement: the colour of each face of a new cube.
CanonicalColour(f) ==
    CASE f = "front"  -> "G"
      [] f = "back"   -> "B"
      [] f = "left"   -> "O"
      [] f = "right"  -> "R"
      [] f = "top"    -> "W"
      [] f = "bottom" -> "Y"

\* C39: in every state reachable from a new cube by moves, the centre
\* sticker [1][1] of each face has its initial colour; so whenever isSolved()
\* is true in such a state, each face is all of its canonical colour: front
\* G, back B, left O, right R, top W, bottom Y.
C39_CentresFixedSolvedIsCanonical ==
    /\ \A f \in FaceNames :
          /\ state.faces[f][1][1] = createSolvedCube.faces[f][1][1]
          /\ state.faces[f][1][1] = CanonicalColour(f)
    /\ isSolved(state.faces) =>
          \A f \in FaceNames : \A i \in Idx : \A j \in Idx :
              state.faces[f][i][j] = CanonicalColour(f)

\* C39's case: two half turns of the left face have brought the cube back
\* to a state isSolved() accepts.
C39_Witness ==
    /\ state.moveHistory = <<"L2", "L2">>
    /\ isSolved(state.faces)
    /\ state.faces.front[1][1] = "G"
====
